---- MODULE Spec2Model ----
(***************************************************************************)
(* Home tariff scheme comparison: the tariff calculation engine of         *)
(* src/tariff.py (calculateTariff and the flat-rate, tiered and            *)
(* time-of-use calculators) and its CSV ingestion (readCSVFile,            *)
(* validateDataFormat, parseSpreadsheetData).                              *)
(*                                                                         *)
(* Numbers.  Python floats are modelled as exact fixed-point decimals:     *)
(*   - a kWh amount is an integer number of kWh units;                     *)
(*   - a rate is an integer number of money units per kWh unit;            *)
(*   - a money amount is an integer number of money units, one money unit  *)
(*     being a tenth of a cent (0.001 currency), so round(x, 2) rounds to  *)
(*     a multiple of ten money units.                                      *)
(* Python objects are records carrying a "type" field; the absent value    *)
(* None is the record None below.  A call's outcome is either Return(v)    *)
(* or Raise(exception name).                                               *)
(*                                                                         *)
(* Strings.  A time or timestamp string is the sequence of its numerals;   *)
(* a cell text of a CSV file is a timestamp, the numeral of a number, a    *)
(* word or the empty string, possibly with blanks around it.               *)
(***************************************************************************)
EXTENDS Integers, Sequences, FiniteSets, TLC

VARIABLES
    tariff_data,          \* the caller's record list (List[ElectricalUsageRecord])
    tariff_model,         \* the caller's selector
    flat_rate_tariff,     \* Optional[FlatRateTariff]
    time_of_use_tariffs,  \* Optional[TimeOfUseTariffCategories]
    tiered_tariffs,       \* Optional[TierTariffThresholds]
    monthly_fee,          \* the monthly fee, in money units
    called,               \* name of the function the caller invoked, or "" before
    result,               \* outcome of that call
    csv_file,             \* the file at the path given to the ingestion functions
    cell,                 \* the TariffDataCell given to validateDataFormat
    calls                 \* frames of the calculator invocations in progress

vars == <<tariff_data, tariff_model, flat_rate_tariff, time_of_use_tariffs,
          tiered_tariffs, monthly_fee, called, result, csv_file, cell, calls>>

----------------------------------------------------------------------------
(* Python values *)

None == [type |-> "NoneType"]

Return(v) == [status |-> "returned", value |-> v]

Raise(e) == [status |-> "raised", exc |-> e]

NoCall == [status |-> "none"]

TariffModel(v) == [type |-> "TariffModel", value |-> v]

FLAT_RATE == TariffModel(1)

TIME_OF_USE == TariffModel(2)

TIERED == TariffModel(3)

ElectricalUsageRecord(timestamp, kwh) ==
    [type |-> "ElectricalUsageRecord", timestamp |-> timestamp, kwh |-> kwh]

FlatRateTariff(rate) == [type |-> "FlatRateTariff", rate |-> rate]

FlatRateTariffResult(total_cost, total_consumption) ==
    [type |-> "FlatRateTariffResult", total_cost |-> total_cost,
     total_consumption |-> total_consumption]

TierThreshold(threshold_level, low_kwh, high_kwh, tariff_rate) ==
    [type |-> "TierThreshold", threshold_level |-> threshold_level,
     low_kwh |-> low_kwh, high_kwh |-> high_kwh, tariff_rate |-> tariff_rate]

TierTariffThresholds(tier1, tier2, tier3) ==
    [type |-> "TierTariffThresholds", tier1 |-> tier1, tier2 |-> tier2,
     tier3 |-> tier3]

TierResult(tier_cost, tier_consumption) ==
    [type |-> "TierResult", tier_cost |-> tier_cost,
     tier_consumption |-> tier_consumption]

TieredTariffResult(total_cost, total_consumption, tier1, tier2, tier3) ==
    [type |-> "TieredTariffResult", total_cost |-> total_cost,
     total_consumption |-> total_consumption, tier1 |-> tier1,
     tier2 |-> tier2, tier3 |-> tier3]

----------------------------------------------------------------------------
(* Python built-ins *)

min(a, b) == IF b < a THEN b ELSE a

max(a, b) == IF b > a THEN b ELSE a

\* round(x, 2) on a money amount: to the nearest cent (ten money units), a
\* tie going to the even cent.
round2(x) ==
    LET q == x \div 10
        r == x % 10
    IN  IF r < 5 THEN q * 10
        ELSE IF r > 5 THEN (q + 1) * 10
        ELSE IF q % 2 = 0 THEN q * 10 ELSE (q + 1) * 10

\* const.MONTHLY_FEE = 10.0 currency, in money units
MONTHLY_FEE == 10000

RECURSIVE SumKwh(_)
SumKwh(records) ==
    IF records = <<>> THEN 0
    ELSE Head(records).kwh + SumKwh(Tail(records))

\* Faulty variant: the first record is left out of the sum.
_total_consumption_SkipsFirst(records) ==
    IF records = <<>> THEN 0 ELSE SumKwh(Tail(records))

_total_consumption(records) == SumKwh(records)

----------------------------------------------------------------------------
(* Flat-rate calculator *)

\* Faulty variant: the fee is added before rounding.
_flatRateTariff_FeeRounded(records, tariff_rate, fee) ==
    LET total_consumption == _total_consumption(records)
        usage_cost == round2(total_consumption * tariff_rate.rate + fee)
    IN  Return(FlatRateTariffResult(usage_cost, total_consumption))

_flatRateTariff(records, tariff_rate, fee) ==
    LET total_consumption == _total_consumption(records)
        usage_cost == round2(total_consumption * tariff_rate.rate)
    IN  Return(FlatRateTariffResult(usage_cost + fee, total_consumption))

----------------------------------------------------------------------------
(* Tiered calculator *)

\* The tier costs, the total cost and the result object, from the three tier
\* consumptions (the second half of _tieredTariff).
TieredResultOf(total_consumption, c1, c2, c3, tariff_tiers, fee) ==
    LET tier1_cost == c1 * tariff_tiers.tier1.tariff_rate
        tier2_cost == c2 * tariff_tiers.tier2.tariff_rate
        tier3_cost == c3 * tariff_tiers.tier3.tariff_rate
        total_cost == tier1_cost + tier2_cost + tier3_cost + fee
    IN  Return(TieredTariffResult(
            round2(total_cost),
            total_consumption,
            TierResult(round2(tier1_cost), c1),
            TierResult(round2(tier2_cost), c2),
            TierResult(round2(tier3_cost), c3)))

\* Faulty variant: tier 2 has no upper cap.
_tieredTariff_Tier2Uncapped(records, tariff_tiers, fee) ==
    LET T == _total_consumption(records)
    IN  TieredResultOf(T,
            min(T, tariff_tiers.tier1.high_kwh),
            max(0, T - tariff_tiers.tier1.high_kwh),
            max(0, T - tariff_tiers.tier2.high_kwh),
            tariff_tiers, fee)

\* Faulty variant: tier 3 starts at tier 1's threshold.
_tieredTariff_Tier3FromTier1(records, tariff_tiers, fee) ==
    LET T == _total_consumption(records)
    IN  TieredResultOf(T,
            min(T, tariff_tiers.tier1.high_kwh),
            min(max(0, T - tariff_tiers.tier1.high_kwh),
                tariff_tiers.tier2.high_kwh - tariff_tiers.tier1.high_kwh),
            max(0, T - tariff_tiers.tier1.high_kwh),
            tariff_tiers, fee)

\* Faulty variant: the unit at a threshold is billed in the upper tier.
_tieredTariff_BoundaryInUpperTier(records, tariff_tiers, fee) ==
    LET T == _total_consumption(records)
        h1 == tariff_tiers.tier1.high_kwh - 1
        h2 == tariff_tiers.tier2.high_kwh - 1
    IN  TieredResultOf(T,
            min(T, h1),
            min(max(0, T - h1), h2 - h1),
            max(0, T - h2),
            tariff_tiers, fee)

\* Faulty variant: every record is split over the tiers on its own and the
\* tier consumptions are the sums of the records' parts.
RECURSIVE PerRecordTier(_, _, _)
PerRecordTier(records, lo, hi) ==
    IF records = <<>> THEN 0
    ELSE min(max(0, Head(records).kwh - lo), hi - lo)
         + PerRecordTier(Tail(records), lo, hi)

_tieredTariff_PerRecord(records, tariff_tiers, fee) ==
    LET h1 == tariff_tiers.tier1.high_kwh
        h2 == tariff_tiers.tier2.high_kwh
    IN  TieredResultOf(_total_consumption(records),
            PerRecordTier(records, 0, h1),
            PerRecordTier(records, h1, h2),
            PerRecordTier(records, h2, h2 + 10000),
            tariff_tiers, fee)

\* Faulty variant: only the part of the consumption inside the highest tier
\* reached is billed; the tiers below it are dropped.
_tieredTariff_TopTierOnly(records, tariff_tiers, fee) ==
    LET T == _total_consumption(records)
        h1 == tariff_tiers.tier1.high_kwh
        h2 == tariff_tiers.tier2.high_kwh
    IN  TieredResultOf(T,
            IF T <= h1 THEN T ELSE 0,
            IF h1 < T /\ T <= h2 THEN T - h1 ELSE 0,
            max(0, T - h2),
            tariff_tiers, fee)

_tieredTariff(records, tariff_tiers, fee) ==
    LET total_consumption == _total_consumption(records)
        tier1_consumption == min(total_consumption, tariff_tiers.tier1.high_kwh)
        tier2_consumption ==
            min(max(0, total_consumption - tariff_tiers.tier1.high_kwh),
                tariff_tiers.tier2.high_kwh - tariff_tiers.tier1.high_kwh)
        tier3_consumption == max(0, total_consumption - tariff_tiers.tier2.high_kwh)
    IN  TieredResultOf(total_consumption, tier1_consumption, tier2_consumption,
                       tier3_consumption, tariff_tiers, fee)

----------------------------------------------------------------------------
(* Time-of-use calculator *)

\* A time string "HH:MM:SS" is modelled by its ":"-separated numerals, and a
\* timestamp "YYYY-MM-DD HH:MM:SS" by <<day number, HH, MM, SS>>.
TimeStr(parts) == [type |-> "str", parts |-> parts]

\* the same numerals written loosely, such as "18:0:0" or "2025-1-1 1:2:3"
\* (one-digit fields), which int() and strptime read like the padded form
LooseTimeStr(parts) == [type |-> "str", parts |-> parts, loose |-> TRUE]

\* b"HH:MM:SS"
TimeBytes(parts) == [type |-> "bytes", parts |-> parts]

TimeOfUseCategory(period_start, period_end, tariff_rate) ==
    [type |-> "TimeOfUseCategory", period_start |-> period_start,
     period_end |-> period_end, tariff_rate |-> tariff_rate]

TimeOfUseTariffCategories(peak, off_peak, shoulder) ==
    [type |-> "TimeOfUseTariffCategories", peak |-> peak,
     off_peak |-> off_peak, shoulder |-> shoulder]

TimeOfUseResult(tou_cost, tou_consumption) ==
    [type |-> "TimeOfUseResult", tou_cost |-> tou_cost,
     tou_consumption |-> tou_consumption]

TimeOfUseTariffResult(total_cost, total_consumption, peak, off_peak, shoulder) ==
    [type |-> "TimeOfUseTariffResult", total_cost |-> total_cost,
     total_consumption |-> total_consumption, peak |-> peak,
     off_peak |-> off_peak, shoulder |-> shoulder]

SecondsPerDay == 24 * 60 * 60

\* datetime.time(h, m, s), as seconds since midnight
time(h, m, s) == h * 60 * 60 + m * 60 + s

ValidTime(h, m, s) == h \in 0..23 /\ m \in 0..59 /\ s \in 0..59

\* datetime.combine(date, time): an instant, in seconds since day 0
combine(date, t) == date * SecondsPerDay + t

\* datetime.strptime(timestamp, "%Y-%m-%d %H:%M:%S")
strptime(timestamp) ==
    IF "parts" \notin DOMAIN timestamp THEN Raise("ValueError")
    ELSE
    LET p == timestamp.parts
    IN  IF Len(p) = 4 /\ p[1] >= 0 /\ ValidTime(p[2], p[3], p[4])
        THEN Return(combine(p[1], time(p[2], p[3], p[4])))
        ELSE Raise("ValueError")

\* Faulty variant: every unusable value is reported as a ValueError.
_get_time_from_str_AlwaysValueError(time_str) ==
    IF time_str.type = "str" /\ Len(time_str.parts) = 3
       /\ ValidTime(time_str.parts[1], time_str.parts[2], time_str.parts[3])
    THEN Return(time(time_str.parts[1], time_str.parts[2], time_str.parts[3]))
    ELSE Raise("ValueError")

\* time_str.split(":") exists on str and bytes only, and bytes.split rejects
\* the str separator; int() reads a numeral whatever its padding.
_get_time_from_str(time_str) ==
    IF time_str.type = "bytes" THEN Raise("TypeError")
    ELSE IF time_str.type # "str" THEN Raise("AttributeError")
    ELSE LET p == time_str.parts
         IN  IF Len(p) = 3 /\ ValidTime(p[1], p[2], p[3])
             THEN Return(time(p[1], p[2], p[3]))
             ELSE Raise("ValueError")

\* Faulty variant: the off-peak test comes before the peak test.
TouBucket_OffPeakFirst(record, tariff_categories) ==
    LET record_dt == strptime(record.timestamp).value
        record_dt_date == record_dt \div SecondsPerDay
        record_dt_midnight == record_dt_date * SecondsPerDay
        peak_start_dt ==
            combine(record_dt_date,
                    _get_time_from_str(tariff_categories.peak.period_start).value)
        peak_end_dt ==
            combine(record_dt_date,
                    _get_time_from_str(tariff_categories.peak.period_end).value)
        off_peak_start_dt ==
            combine(record_dt_date,
                    _get_time_from_str(tariff_categories.off_peak.period_start).value)
        off_peak_end_dt ==
            combine(record_dt_date,
                    _get_time_from_str(tariff_categories.off_peak.period_end).value)
    IN  IF \/ (off_peak_start_dt <= record_dt
               /\ record_dt <= record_dt_midnight + SecondsPerDay)
           \/ (record_dt_midnight <= record_dt /\ record_dt <= off_peak_end_dt)
        THEN Return("off_peak")
        ELSE IF peak_start_dt <= record_dt /\ record_dt <= peak_end_dt
        THEN Return("peak")
        ELSE Return("shoulder")

\* Faulty variant: the end of the peak window is exclusive.
TouBucket_PeakEndExclusive(record, tariff_categories) ==
    LET record_dt == strptime(record.timestamp).value
        record_dt_date == record_dt \div SecondsPerDay
        peak_end_dt ==
            combine(record_dt_date,
                    _get_time_from_str(tariff_categories.peak.period_end).value)
        b == TouBucket_OffPeakFirst(record, tariff_categories)
        peak_start_dt ==
            combine(record_dt_date,
                    _get_time_from_str(tariff_categories.peak.period_start).value)
    IN  IF peak_start_dt <= record_dt /\ record_dt < peak_end_dt
        THEN Return("peak")
        ELSE IF b.value = "peak" THEN Return("shoulder") ELSE b

\* Faulty variant: a peak window that spans midnight is wrapped around it.
TouBucket_PeakWrapped(record, tariff_categories) ==
    LET record_dt == strptime(record.timestamp).value
        t == record_dt % SecondsPerDay
        ps == _get_time_from_str(tariff_categories.peak.period_start).value
        pe == _get_time_from_str(tariff_categories.peak.period_end).value
    IN  IF ps > pe /\ (t >= ps \/ t <= pe)
        THEN Return("peak")
        ELSE TouBucket_OffPeakFirst(
                 record,
                 [tariff_categories EXCEPT
                     !.off_peak = tariff_categories.peak,
                     !.peak = tariff_categories.off_peak])

\* One iteration of the record loop, up to the choice of the bucket.
TouBucket(record, tariff_categories) ==
    LET parsed == strptime(record.timestamp)
        peak_start_time == _get_time_from_str(tariff_categories.peak.period_start)
        peak_end_time == _get_time_from_str(tariff_categories.peak.period_end)
        off_peak_start_time == _get_time_from_str(tariff_categories.off_peak.period_start)
        off_peak_end_time == _get_time_from_str(tariff_categories.off_peak.period_end)
    IN  IF parsed.status = "raised" THEN parsed
        ELSE IF peak_start_time.status = "raised" THEN peak_start_time
        ELSE IF peak_end_time.status = "raised" THEN peak_end_time
        ELSE IF off_peak_start_time.status = "raised" THEN off_peak_start_time
        ELSE IF off_peak_end_time.status = "raised" THEN off_peak_end_time
        ELSE
        LET record_dt == parsed.value
            record_dt_date == record_dt \div SecondsPerDay
            record_dt_midnight == record_dt_date * SecondsPerDay
            record_dt_next_date_midnight == record_dt_midnight + SecondsPerDay
            peak_start_dt == combine(record_dt_date, peak_start_time.value)
            peak_end_dt == combine(record_dt_date, peak_end_time.value)
            off_peak_start_dt == combine(record_dt_date, off_peak_start_time.value)
            off_peak_end_dt == combine(record_dt_date, off_peak_end_time.value)
        IN  IF peak_start_dt <= record_dt /\ record_dt <= peak_end_dt
            THEN Return("peak")
            ELSE IF \/ (off_peak_start_dt <= record_dt
                        /\ record_dt <= record_dt_next_date_midnight)
                    \/ (record_dt_midnight <= record_dt
                        /\ record_dt <= off_peak_end_dt)
            THEN Return("off_peak")
            ELSE Return("shoulder")

\* Faulty variant of the record loop: two separate `if`s, so that a record in
\* the peak window that also passes the off-peak test is added to both.
RECURSIVE TouLoop_PeakAlsoOffPeak(_, _, _, _)
TouLoop_PeakAlsoOffPeak(records, i, acc, tariff_categories) ==
    IF i > Len(records) THEN Return(acc)
    ELSE LET b == TouBucket(records[i], tariff_categories)
             o == TouBucket_OffPeakFirst(records[i], tariff_categories)
             acc1 == [acc EXCEPT ![b.value] = @ + records[i].kwh]
             acc2 == IF b.value = "peak" /\ o.value = "off_peak"
                     THEN [acc1 EXCEPT !.off_peak = @ + records[i].kwh]
                     ELSE acc1
         IN  TouLoop_PeakAlsoOffPeak(records, i + 1, acc2, tariff_categories)

\* The record loop: the three accumulators after the records from index i on,
\* or the exception an iteration raised.
RECURSIVE TouLoop(_, _, _, _)
TouLoop(records, i, acc, tariff_categories) ==
    IF i > Len(records) THEN Return(acc)
    ELSE LET b == TouBucket(records[i], tariff_categories)
         IN  IF b.status = "raised" THEN b
             ELSE TouLoop(records, i + 1,
                          [acc EXCEPT ![b.value] = @ + records[i].kwh],
                          tariff_categories)

\* Faulty variant: the total, fee included, is rounded once more.
_timeOfUseTariff_TotalRounded(records, tariff_categories, fee) ==
    LET loop == TouLoop(records, 1, [peak |-> 0, off_peak |-> 0, shoulder |-> 0],
                        tariff_categories)
        peak_result ==
            TimeOfUseResult(
                round2(loop.value.peak * tariff_categories.peak.tariff_rate),
                loop.value.peak)
        off_peak_result ==
            TimeOfUseResult(
                round2(loop.value.off_peak * tariff_categories.off_peak.tariff_rate),
                loop.value.off_peak)
        shoulder_result ==
            TimeOfUseResult(
                round2(loop.value.shoulder * tariff_categories.shoulder.tariff_rate),
                loop.value.shoulder)
    IN  IF loop.status = "raised" THEN loop
        ELSE Return(TimeOfUseTariffResult(
                 round2(peak_result.tou_cost + off_peak_result.tou_cost
                        + shoulder_result.tou_cost + fee),
                 _total_consumption(records), peak_result, off_peak_result,
                 shoulder_result))

_timeOfUseTariff(records, tariff_categories, fee) ==
    LET total_consumption == _total_consumption(records)
        loop == TouLoop(records, 1, [peak |-> 0, off_peak |-> 0, shoulder |-> 0],
                        tariff_categories)
    IN  IF loop.status = "raised" THEN loop
        ELSE
        LET peak_consumption == loop.value.peak
            off_peak_consumption == loop.value.off_peak
            shoulder_consumption == loop.value.shoulder
            peak_result ==
                TimeOfUseResult(
                    round2(peak_consumption * tariff_categories.peak.tariff_rate),
                    peak_consumption)
            off_peak_result ==
                TimeOfUseResult(
                    round2(off_peak_consumption * tariff_categories.off_peak.tariff_rate),
                    off_peak_consumption)
            shoulder_result ==
                TimeOfUseResult(
                    round2(shoulder_consumption * tariff_categories.shoulder.tariff_rate),
                    shoulder_consumption)
        IN  Return(TimeOfUseTariffResult(
                peak_result.tou_cost + off_peak_result.tou_cost
                    + shoulder_result.tou_cost + fee,
                total_consumption, peak_result, off_peak_result, shoulder_result))

----------------------------------------------------------------------------
(* Ingestion: readCSVFile, validateDataFormat, parseSpreadsheetData *)

\* Cell texts.  Besides the timestamps above: the decimal numeral of a number,
\* a word that is neither a number nor a timestamp, the empty string, and a
\* text with blanks before and after it.
NumStr(k) == [type |-> "str", number |-> k]

WordStr == [type |-> "str", word |-> "not-a-number"]

EmptyStr == [type |-> "str", word |-> ""]

Padded(s) == [type |-> "str", padded |-> s]

\* str.strip()
strip(s) == IF "padded" \in DOMAIN s THEN s.padded ELSE s

\* float(s): blanks around the numeral are allowed
float(s) ==
    IF "number" \in DOMAIN strip(s) THEN Return(strip(s).number)
    ELSE Raise("ValueError")

SPREADSHEET_COL_TIMESTAMP == "timestamp"

SPREADSHEET_COL_KWH == "kWh"

TariffDataCell(value, data_type) ==
    [type |-> "TariffDataCell", value |-> value, data_type |-> data_type]

\* The file at the path: whether it exists, whether opening, reading and
\* decoding it succeed, whether csv.Sniffer can tell the dialect of a
\* non-empty sample, and its content: the header line and the lines after it,
\* each a sequence of cell texts (a blank line has no cells).
CsvFile(exists, opens, dialect, fieldnames, rows) ==
    [type |-> "file", exists |-> exists, opens |-> opens, dialect |-> dialect,
     fieldnames |-> fieldnames, rows |-> rows]

ErrorMessage(kind) == [type |-> "str", error |-> kind]

\* csv.DictReader: one dict per non-blank line; a name that occurs twice in
\* the header keeps its last cell, a name without a cell maps to None (cells
\* beyond the header go under the key None, which nothing reads).
RowDict(fieldnames, row) ==
    [name \in {fieldnames[i] : i \in 1..Len(fieldnames)} |->
        LET last == CHOOSE i \in 1..Len(fieldnames) :
                        /\ fieldnames[i] = name
                        /\ \A j \in (i + 1)..Len(fieldnames) : fieldnames[j] # name
        IN  IF last <= Len(row) THEN row[last] ELSE None]

RECURSIVE DictRows(_, _)
DictRows(fieldnames, rows) ==
    IF rows = <<>> THEN <<>>
    ELSE IF Head(rows) = <<>> THEN DictRows(fieldnames, Tail(rows))
    ELSE <<RowDict(fieldnames, Head(rows))>> \o DictRows(fieldnames, Tail(rows))

\* The returned pair <<rows, error>>.
readCSVFile(file) ==
    IF ~file.exists THEN <<<<>>, ErrorMessage("not found")>>
    \* open(), file.read() raise
    ELSE IF ~file.opens THEN <<<<>>, ErrorMessage("read error")>>
    \* csv.Sniffer().sniff(sample) raises: empty sample or no dialect found
    ELSE IF (file.fieldnames = <<>> /\ file.rows = <<>>) \/ ~file.dialect
    THEN <<<<>>, ErrorMessage("read error")>>
    ELSE
    LET data == DictRows(file.fieldnames, file.rows)
        headers == {file.fieldnames[i] : i \in 1..Len(file.fieldnames)}
    IN  IF data = <<>> THEN <<<<>>, ErrorMessage("empty")>>
        ELSE IF \/ SPREADSHEET_COL_TIMESTAMP \notin headers
                \/ SPREADSHEET_COL_KWH \notin headers
        THEN <<<<>>, ErrorMessage("columns not found")>>
        ELSE <<data, None>>

\* Faulty variant: an unsupported data type counts as valid.
validateDataFormat_UnsupportedValid(c) ==
    IF strip(c.value) = EmptyStr THEN FALSE
    ELSE IF c.data_type = "datetime" THEN strptime(c.value).status = "returned"
    ELSE IF c.data_type = "numeric" THEN float(c.value).status = "returned"
    ELSE TRUE

\* Faulty variant: every non-empty datetime cell counts as valid.
validateDataFormat_AnyDatetime(c) ==
    IF strip(c.value) = EmptyStr THEN FALSE
    ELSE IF c.data_type = "datetime" THEN TRUE
    ELSE IF c.data_type = "numeric" THEN float(c.value).status = "returned"
    ELSE FALSE

validateDataFormat(c) ==
    IF strip(c.value) = EmptyStr THEN FALSE
    ELSE IF c.data_type = "datetime" THEN strptime(c.value).status = "returned"
    ELSE IF c.data_type = "numeric" THEN float(c.value).status = "returned"
    ELSE FALSE

\* The row loop: the records of the rows from index i on appended to acc, or
\* the exception an iteration raised (None has no strip).
RECURSIVE ParseRows(_, _, _)
ParseRows(csv_data, i, electrical_usage_records) ==
    IF i > Len(csv_data) THEN Return(electrical_usage_records)
    ELSE
    LET row == csv_data[i]
    IN  IF row[SPREADSHEET_COL_TIMESTAMP] = None \/ row[SPREADSHEET_COL_KWH] = None
        THEN Raise("AttributeError")
        ELSE
        LET timestamp_val == strip(row[SPREADSHEET_COL_TIMESTAMP])
            kwh_val == strip(row[SPREADSHEET_COL_KWH])
            timestamp_cell == TariffDataCell(timestamp_val, "datetime")
            kwh_cell == TariffDataCell(kwh_val, "numeric")
        IN  IF validateDataFormat(timestamp_cell) /\ validateDataFormat(kwh_cell)
            THEN ParseRows(csv_data, i + 1,
                           Append(electrical_usage_records,
                                  ElectricalUsageRecord(timestamp_val,
                                                        float(kwh_val).value)))
            ELSE ParseRows(csv_data, i + 1, electrical_usage_records)

parseSpreadsheetData(spreadsheet_file) ==
    LET read == readCSVFile(spreadsheet_file)
        csv_data == read[1]
        error == read[2]
    IN  IF error # None THEN Return(<<>>)
        ELSE ParseRows(csv_data, 1, <<>>)

----------------------------------------------------------------------------
(* Tariff dispatcher *)

\* Faulty variants of calculateTariff, used to test the properties below.
\* A missing tiered configuration is reported as an unknown model.
calculateTariff_MissingTiersValueError(records, model, flat, tou, tiers, fee) ==
    IF model = FLAT_RATE THEN
        IF flat = None THEN Raise("AttributeError")
        ELSE _flatRateTariff(records, flat, fee)
    ELSE IF model = TIME_OF_USE THEN
        IF tou = None THEN Raise("AttributeError")
        ELSE _timeOfUseTariff(records, tou, fee)
    ELSE IF model = TIERED THEN
        IF tiers = None THEN Raise("ValueError")
        ELSE _tieredTariff(records, tiers, fee)
    ELSE Raise("ValueError")

\* The configurations are checked before the selector is matched.
calculateTariff_ConfigCheckedFirst(records, model, flat, tou, tiers, fee) ==
    IF flat = None /\ tou = None /\ tiers = None THEN Raise("AttributeError")
    ELSE IF model = FLAT_RATE THEN
        IF flat = None THEN Raise("AttributeError")
        ELSE _flatRateTariff(records, flat, fee)
    ELSE IF model = TIME_OF_USE THEN
        IF tou = None THEN Raise("AttributeError")
        ELSE _timeOfUseTariff(records, tou, fee)
    ELSE IF model = TIERED THEN
        IF tiers = None THEN Raise("AttributeError")
        ELSE _tieredTariff(records, tiers, fee)
    ELSE Raise("ValueError")

\* The tiered calculator is called without the caller's fee, so with its default.
calculateTariff_TieredDefaultFee(records, model, flat, tou, tiers, fee) ==
    IF model = FLAT_RATE THEN
        IF flat = None THEN Raise("AttributeError")
        ELSE _flatRateTariff(records, flat, fee)
    ELSE IF model = TIME_OF_USE THEN
        IF tou = None THEN Raise("AttributeError")
        ELSE _timeOfUseTariff(records, tou, fee)
    ELSE IF model = TIERED THEN
        IF tiers = None THEN Raise("AttributeError")
        ELSE _tieredTariff(records, tiers, MONTHLY_FEE)
    ELSE Raise("ValueError")

calculateTariff(records, model, flat, tou, tiers, fee) ==
    IF model = FLAT_RATE THEN
        IF flat = None THEN Raise("AttributeError")
        ELSE _flatRateTariff(records, flat, fee)
    ELSE IF model = TIME_OF_USE THEN
        IF tou = None THEN Raise("AttributeError")
        ELSE _timeOfUseTariff(records, tou, fee)
    ELSE IF model = TIERED THEN
        IF tiers = None THEN Raise("AttributeError")
        ELSE _tieredTariff(records, tiers, fee)
    ELSE Raise("ValueError")

----------------------------------------------------------------------------
(* Bounds and input domains *)

\* Longest record list a caller builds.
MaxRecords == 2

Noon == TimeStr(<<1, 12, 0, 0>>)

\* Selectors: the three enum members, and values that are none of them.
Selectors ==
    {FLAT_RATE, TIME_OF_USE, TIERED, None,
     [type |-> "str", text |-> "FLAT_RATE"],
     [type |-> "int", n |-> 1],
     [type |-> "TimeOfUseModel", value |-> 1]}

\* Fees of 0, 10.00, 10.004 and 10.005 currency.
Fees == {0, 10000, 10004, 10005}

StandardTiers ==
    TierTariffThresholds(TierThreshold(1, 0, 1, 204),
                         TierThreshold(2, 2, 3, 303),
                         TierThreshold(3, 4, 10000, 402))

StandardWindows ==
    TimeOfUseTariffCategories(
        TimeOfUseCategory(TimeStr(<<18, 0, 0>>), TimeStr(<<21, 59, 59>>), 404),
        TimeOfUseCategory(TimeStr(<<22, 0, 0>>), TimeStr(<<6, 59, 59>>), 123),
        TimeOfUseCategory(TimeStr(<<7, 0, 0>>), TimeStr(<<17, 59, 59>>), 302))

DispatchRecords ==
    {ElectricalUsageRecord(TimeStr(<<1, h, 0, 0>>), k) : h \in {8, 19, 23}, k \in {1, 2}}

FlatRecords == {ElectricalUsageRecord(Noon, k) : k \in {-1, 0, 1, 2, 3}}

FlatRates == {0, 123, 125, 250}

TierRecords == {ElectricalUsageRecord(Noon, k) : k \in {-1, 0, 1, 2, 3}}

TierHighs == {0, 1, 2, 4}

TierRateSets == {<<204, 303, 402>>, <<124, 124, 124>>}

TierConfigs ==
    {TierTariffThresholds(TierThreshold(1, 0, h1, r[1]),
                          TierThreshold(2, h1 + 1, h2, r[2]),
                          TierThreshold(3, h2 + 1, 10000, r[3])) :
        h1 \in TierHighs, h2 \in TierHighs, r \in TierRateSets}

----------------------------------------------------------------------------
(* The caller: builds a record list, then makes one call *)

Inputs == <<tariff_data, tariff_model, flat_rate_tariff, time_of_use_tariffs,
            tiered_tariffs, monthly_fee, csv_file, cell>>

AppendRecord(Records) ==
    /\ called = ""
    /\ Len(tariff_data) < MaxRecords
    /\ \E r \in Records : tariff_data' = Append(tariff_data, r)
    /\ UNCHANGED <<tariff_model, flat_rate_tariff, time_of_use_tariffs,
                   tiered_tariffs, monthly_fee, called, result,
                   csv_file, cell, calls>>

\* Faulty variant: the dispatcher consumes the record list it was given.
Call_calculateTariff_ConsumesRecords ==
    /\ called = ""
    /\ called' = "calculateTariff"
    /\ result' = calculateTariff(tariff_data, tariff_model, flat_rate_tariff,
                                 time_of_use_tariffs, tiered_tariffs, monthly_fee)
    /\ tariff_data' = <<>>
    /\ UNCHANGED <<tariff_model, flat_rate_tariff, time_of_use_tariffs,
                   tiered_tariffs, monthly_fee, csv_file, cell, calls>>

Call_calculateTariff ==
    /\ called = ""
    /\ called' = "calculateTariff"
    /\ result' = calculateTariff(tariff_data, tariff_model, flat_rate_tariff,
                                 time_of_use_tariffs, tiered_tariffs, monthly_fee)
    /\ UNCHANGED <<Inputs, calls>>

Call_flatRateTariff ==
    /\ called = ""
    /\ flat_rate_tariff # None
    /\ called' = "_flatRateTariff"
    /\ result' = _flatRateTariff(tariff_data, flat_rate_tariff, monthly_fee)
    /\ UNCHANGED <<Inputs, calls>>

Call_tieredTariff ==
    /\ called = ""
    /\ tiered_tariffs # None
    /\ called' = "_tieredTariff"
    /\ result' = _tieredTariff(tariff_data, tiered_tariffs, monthly_fee)
    /\ UNCHANGED <<Inputs, calls>>

Call_timeOfUseTariff ==
    /\ called = ""
    /\ time_of_use_tariffs # None
    /\ called' = "_timeOfUseTariff"
    /\ result' = _timeOfUseTariff(tariff_data, time_of_use_tariffs, monthly_fee)
    /\ UNCHANGED <<Inputs, calls>>

\* Dispatcher: any selector, each configuration supplied or absent.
Init ==
    /\ tariff_data = <<>>
    /\ tariff_model \in Selectors
    /\ flat_rate_tariff \in {None, FlatRateTariff(125)}
    /\ time_of_use_tariffs \in {None, StandardWindows}
    /\ tiered_tariffs \in {None, StandardTiers}
    /\ monthly_fee \in {10000, 10005}
    /\ called = ""
    /\ result = NoCall
    /\ csv_file = None
    /\ cell = None
    /\ calls = <<>>

AppendDispatchRecord == AppendRecord(DispatchRecords)

Next == AppendDispatchRecord \/ Call_calculateTariff

Spec == Init /\ [][Next]_vars

\* Flat-rate calculator called directly.
InitFlat ==
    /\ tariff_data = <<>>
    /\ tariff_model = FLAT_RATE
    /\ flat_rate_tariff \in {FlatRateTariff(r) : r \in FlatRates}
    /\ time_of_use_tariffs = None
    /\ tiered_tariffs = None
    /\ monthly_fee \in Fees
    /\ called = ""
    /\ result = NoCall
    /\ csv_file = None
    /\ cell = None
    /\ calls = <<>>

AppendFlatRecord == AppendRecord(FlatRecords)

NextFlat == AppendFlatRecord \/ Call_flatRateTariff

SpecFlat == InitFlat /\ [][NextFlat]_vars

\* Tiered calculator called directly.
InitTiered ==
    /\ tariff_data = <<>>
    /\ tariff_model = TIERED
    /\ flat_rate_tariff = None
    /\ time_of_use_tariffs = None
    /\ tiered_tariffs \in TierConfigs
    /\ monthly_fee \in Fees
    /\ called = ""
    /\ result = NoCall
    /\ csv_file = None
    /\ cell = None
    /\ calls = <<>>

AppendTierRecord == AppendRecord(TierRecords)

NextTiered == AppendTierRecord \/ Call_tieredTariff

SpecTiered == InitTiered /\ [][NextTiered]_vars

\* Time-of-use calculator called directly.  The windows cover the standard
\* scheme, a peak window that ends where off-peak starts (overlap), a peak
\* window spanning midnight, and off-peak windows that stay within one day.
PeakStarts == {TimeStr(<<18, 0, 0>>), TimeStr(<<22, 0, 0>>)}

PeakEnds == {TimeStr(<<21, 59, 59>>), TimeStr(<<22, 0, 0>>), TimeStr(<<6, 59, 59>>)}

OffPeakStarts == {TimeStr(<<22, 0, 0>>), TimeStr(<<1, 0, 0>>)}

OffPeakEnds == {TimeStr(<<6, 59, 59>>), TimeStr(<<23, 59, 59>>)}

TouConfigs ==
    {TimeOfUseTariffCategories(
         TimeOfUseCategory(ps, pe, 404),
         TimeOfUseCategory(os, oe, 123),
         TimeOfUseCategory(TimeStr(<<7, 0, 0>>), TimeStr(<<17, 59, 59>>), 302)) :
        ps \in PeakStarts, pe \in PeakEnds, os \in OffPeakStarts, oe \in OffPeakEnds}

TouTimestamps ==
    {TimeStr(<<1, 0, 0, 0>>), TimeStr(<<1, 6, 59, 59>>), TimeStr(<<1, 7, 0, 0>>),
     TimeStr(<<1, 17, 59, 59>>), TimeStr(<<1, 18, 0, 0>>), TimeStr(<<1, 21, 59, 59>>), TimeStr(<<1, 22, 0, 0>>),
     TimeStr(<<1, 23, 59, 59>>), TimeStr(<<2, 12, 0, 0>>)}

TouRecords == {ElectricalUsageRecord(ts, k) : ts \in TouTimestamps, k \in {1, 2}}

InitTOU ==
    /\ tariff_data = <<>>
    /\ tariff_model = TIME_OF_USE
    /\ flat_rate_tariff = None
    /\ time_of_use_tariffs \in TouConfigs
    /\ tiered_tariffs = None
    /\ monthly_fee \in {0, 10005}
    /\ called = ""
    /\ result = NoCall
    /\ csv_file = None
    /\ cell = None
    /\ calls = <<>>

AppendTouRecord == AppendRecord(TouRecords)

NextTOU == AppendTouRecord \/ Call_timeOfUseTariff

SpecTOU == InitTOU /\ [][NextTOU]_vars

\* _total_consumption called directly on the records.
Call_total_consumption ==
    /\ called = ""
    /\ called' = "_total_consumption"
    /\ result' = Return(_total_consumption(tariff_data))
    /\ UNCHANGED <<Inputs, calls>>

TotalRecords ==
    {ElectricalUsageRecord(ts, k) :
        ts \in {Noon, TimeStr(<<2, 0, 0, 0>>)}, k \in {-1, 0, 1, 2, 3}}

InitTotal ==
    /\ tariff_data = <<>>
    /\ tariff_model = None
    /\ flat_rate_tariff = None
    /\ time_of_use_tariffs = None
    /\ tiered_tariffs = None
    /\ monthly_fee = MONTHLY_FEE
    /\ called = ""
    /\ result = NoCall
    /\ csv_file = None
    /\ cell = None
    /\ calls = <<>>

AppendTotalRecord == AppendRecord(TotalRecords)

NextTotal == AppendTotalRecord \/ Call_total_consumption

SpecTotal == InitTotal /\ [][NextTotal]_vars

\* Time-of-use calculator called with window edges that may be unusable.
OddEdges ==
    {TimeStr(<<18, 0>>), TimeStr(<<24, 0, 0>>), LooseTimeStr(<<18, 0, 0>>),
     TimeBytes(<<18, 0, 0>>), None, [type |-> "int", n |-> 18]}

WindowConfigs ==
    {StandardWindows}
    \cup {[StandardWindows EXCEPT !.peak.period_start = e] : e \in OddEdges}
    \cup {[StandardWindows EXCEPT !.peak.period_end = e] : e \in OddEdges}
    \cup {[StandardWindows EXCEPT !.off_peak.period_start = e] : e \in OddEdges}
    \cup {[StandardWindows EXCEPT !.off_peak.period_end = e] : e \in OddEdges}
    \cup {[StandardWindows EXCEPT !.shoulder.period_start = e] : e \in OddEdges}
    \cup {[StandardWindows EXCEPT !.peak.period_end = None,
                                  !.off_peak.period_start = TimeStr(<<24, 0, 0>>)]}

WindowRecords ==
    {ElectricalUsageRecord(TimeStr(<<1, 12, 0, 0>>), 1),
     ElectricalUsageRecord(TimeStr(<<1, 19, 0, 0>>), 2),
     ElectricalUsageRecord(TimeStr(<<1, 24, 0, 0>>), 1)}

InitWindows ==
    /\ tariff_data = <<>>
    /\ tariff_model = TIME_OF_USE
    /\ flat_rate_tariff = None
    /\ time_of_use_tariffs \in WindowConfigs
    /\ tiered_tariffs = None
    /\ monthly_fee \in {0, 10005}
    /\ called = ""
    /\ result = NoCall
    /\ csv_file = None
    /\ cell = None
    /\ calls = <<>>

AppendWindowRecord == AppendRecord(WindowRecords)

NextWindows == AppendWindowRecord \/ Call_timeOfUseTariff

SpecWindows == InitWindows /\ [][NextWindows]_vars

\* Concurrent callers of the time-of-use calculator.  Every invocation has its
\* own frame holding its arguments and its locals; an invocation advances by
\* one step at a time (entry, one loop iteration, or the construction of the
\* result) and the steps of different invocations interleave in any order.
Callers == {1, 2}

Frame(records, tariff_categories, fee) ==
    [tariff_data |-> records, tariff_categories |-> tariff_categories,
     monthly_fee |-> fee, pc |-> "start", i |-> 0, total_consumption |-> 0,
     peak_consumption |-> 0, off_peak_consumption |-> 0,
     shoulder_consumption |-> 0, result |-> NoCall]

NoOtherCall ==
    UNCHANGED <<tariff_data, tariff_model, flat_rate_tariff, time_of_use_tariffs,
                tiered_tariffs, monthly_fee, called, result, csv_file, cell>>

\* total_consumption and the three accumulators are set up
TouEnter(c) ==
    /\ calls[c].pc = "start"
    /\ calls' = [calls EXCEPT
                    ![c].pc = "loop",
                    ![c].i = 1,
                    ![c].total_consumption = _total_consumption(calls[c].tariff_data),
                    ![c].peak_consumption = 0,
                    ![c].off_peak_consumption = 0,
                    ![c].shoulder_consumption = 0]
    /\ NoOtherCall

\* the kwh of a record added to the accumulator of its bucket
Accumulated(f, bucket, kwh) ==
    IF bucket = "peak" THEN [f EXCEPT !.peak_consumption = @ + kwh]
    ELSE IF bucket = "off_peak" THEN [f EXCEPT !.off_peak_consumption = @ + kwh]
    ELSE [f EXCEPT !.shoulder_consumption = @ + kwh]

\* Faulty variant: the accumulators are shared, so that an iteration of one
\* invocation adds to the accumulators of all of them.
TouIterate_SharedAccumulators(c) ==
    /\ calls[c].pc = "loop"
    /\ calls[c].i <= Len(calls[c].tariff_data)
    /\ LET record == calls[c].tariff_data[calls[c].i]
           b == TouBucket(record, calls[c].tariff_categories)
       IN  calls' =
               IF b.status = "raised"
               THEN [calls EXCEPT ![c].pc = "done", ![c].result = b]
               ELSE [d \in Callers |->
                        LET f == Accumulated(calls[d], b.value, record.kwh)
                        IN  IF d = c THEN [f EXCEPT !.i = @ + 1] ELSE f]
    /\ NoOtherCall

\* one iteration of the record loop
TouIterate(c) ==
    /\ calls[c].pc = "loop"
    /\ calls[c].i <= Len(calls[c].tariff_data)
    /\ LET record == calls[c].tariff_data[calls[c].i]
           b == TouBucket(record, calls[c].tariff_categories)
       IN  calls' =
               IF b.status = "raised"
               THEN [calls EXCEPT ![c].pc = "done", ![c].result = b]
               ELSE [calls EXCEPT
                        ![c] = [Accumulated(calls[c], b.value, record.kwh)
                                   EXCEPT !.i = @ + 1]]
    /\ NoOtherCall

\* the result built from the invocation's accumulators
TouResultOf(f) ==
    LET peak_result ==
            TimeOfUseResult(
                round2(f.peak_consumption * f.tariff_categories.peak.tariff_rate),
                f.peak_consumption)
        off_peak_result ==
            TimeOfUseResult(
                round2(f.off_peak_consumption * f.tariff_categories.off_peak.tariff_rate),
                f.off_peak_consumption)
        shoulder_result ==
            TimeOfUseResult(
                round2(f.shoulder_consumption * f.tariff_categories.shoulder.tariff_rate),
                f.shoulder_consumption)
    IN  TimeOfUseTariffResult(
            peak_result.tou_cost + off_peak_result.tou_cost
                + shoulder_result.tou_cost + f.monthly_fee,
            f.total_consumption, peak_result, off_peak_result, shoulder_result)

TouFinish(c) ==
    /\ calls[c].pc = "loop"
    /\ calls[c].i > Len(calls[c].tariff_data)
    /\ calls' = [calls EXCEPT ![c].pc = "done",
                              ![c].result = Return(TouResultOf(calls[c]))]
    /\ NoOtherCall

ConcurrentRecords ==
    {ElectricalUsageRecord(TimeStr(<<1, 8, 0, 0>>), 1),
     ElectricalUsageRecord(TimeStr(<<1, 19, 0, 0>>), 2),
     ElectricalUsageRecord(TimeStr(<<1, 23, 0, 0>>), 3),
     ElectricalUsageRecord(TimeStr(<<1, 24, 0, 0>>), 1)}

ConcurrentLists ==
    UNION {[1..n -> ConcurrentRecords] : n \in 0..MaxRecords}

\* the callers use different configurations and fees
ConcurrentConfig(c) ==
    IF c = 1 THEN StandardWindows
    ELSE TimeOfUseTariffCategories(
             TimeOfUseCategory(TimeStr(<<7, 0, 0>>), TimeStr(<<9, 0, 0>>), 250),
             TimeOfUseCategory(TimeStr(<<1, 0, 0>>), TimeStr(<<6, 59, 59>>), 125),
             TimeOfUseCategory(TimeStr(<<9, 0, 1>>), TimeStr(<<23, 59, 59>>), 302))

ConcurrentFee(c) == IF c = 1 THEN MONTHLY_FEE ELSE 10005

InitConcurrent ==
    /\ tariff_data = <<>>
    /\ tariff_model = TIME_OF_USE
    /\ flat_rate_tariff = None
    /\ time_of_use_tariffs = None
    /\ tiered_tariffs = None
    /\ monthly_fee = MONTHLY_FEE
    /\ called = ""
    /\ result = NoCall
    /\ csv_file = None
    /\ cell = None
    /\ \E records \in [Callers -> ConcurrentLists] :
           calls = [c \in Callers |->
                       Frame(records[c], ConcurrentConfig(c), ConcurrentFee(c))]

NextConcurrent ==
    \E c \in Callers : TouEnter(c) \/ TouIterate(c) \/ TouFinish(c)

SpecConcurrent == InitConcurrent /\ [][NextConcurrent]_vars

\* The ingestion functions called on a file, and validateDataFormat on a cell.
Call_readCSVFile ==
    /\ called = ""
    /\ csv_file # None
    /\ called' = "readCSVFile"
    /\ result' = Return(readCSVFile(csv_file))
    /\ UNCHANGED <<Inputs, calls>>

Call_parseSpreadsheetData ==
    /\ called = ""
    /\ csv_file # None
    /\ called' = "parseSpreadsheetData"
    /\ result' = parseSpreadsheetData(csv_file)
    /\ UNCHANGED <<Inputs, calls>>

Call_validateDataFormat ==
    /\ called = ""
    /\ cell # None
    /\ called' = "validateDataFormat"
    /\ result' = Return(validateDataFormat(cell))
    /\ UNCHANGED <<Inputs, calls>>

MaxRows == 2

CsvRows ==
    {<<TimeStr(<<1, 12, 0, 0>>), NumStr(1)>>,
     <<Padded(TimeStr(<<1, 19, 0, 0>>)), Padded(NumStr(2))>>,
     <<LooseTimeStr(<<1, 7, 0, 0>>), NumStr(0)>>,
     <<TimeStr(<<1, 23, 0, 0>>), NumStr(-1)>>,
     <<TimeStr(<<1, 24, 0, 0>>), NumStr(1)>>,
     <<TimeStr(<<1, 12, 0, 0>>), WordStr>>,
     <<TimeStr(<<1, 12, 0, 0>>), EmptyStr>>,
     <<Padded(EmptyStr), NumStr(3)>>,
     <<TimeStr(<<1, 12, 0, 0>>), NumStr(2), WordStr>>,
     <<TimeStr(<<1, 12, 0, 0>>)>>,
     <<>>}

CsvHeaders ==
    {<<SPREADSHEET_COL_TIMESTAMP, SPREADSHEET_COL_KWH>>,
     <<SPREADSHEET_COL_KWH, SPREADSHEET_COL_TIMESTAMP>>,
     <<SPREADSHEET_COL_TIMESTAMP, "kwh">>,
     <<SPREADSHEET_COL_TIMESTAMP, SPREADSHEET_COL_KWH, SPREADSHEET_COL_KWH>>}

CsvRowLists == UNION {[1..n -> CsvRows] : n \in 0..MaxRows}

CsvFiles ==
    {CsvFile(FALSE, FALSE, FALSE, <<>>, <<>>)}
    \cup {CsvFile(TRUE, opens, TRUE, <<>>, <<>>) : opens \in BOOLEAN}
    \cup {CsvFile(TRUE, TRUE, dialect, fieldnames, rows) :
              dialect \in BOOLEAN, fieldnames \in CsvHeaders, rows \in CsvRowLists}

InitIngest ==
    /\ tariff_data = <<>>
    /\ tariff_model = None
    /\ flat_rate_tariff = None
    /\ time_of_use_tariffs = None
    /\ tiered_tariffs = None
    /\ monthly_fee = MONTHLY_FEE
    /\ called = ""
    /\ result = NoCall
    /\ csv_file \in CsvFiles
    /\ cell = None
    /\ calls = <<>>

NextIngest == Call_readCSVFile \/ Call_parseSpreadsheetData

SpecIngest == InitIngest /\ [][NextIngest]_vars

CellValues ==
    LET texts == {TimeStr(<<1, 12, 0, 0>>), TimeStr(<<1, 24, 0, 0>>),
                  TimeStr(<<1, 12, 0>>), LooseTimeStr(<<1, 7, 0, 0>>),
                  NumStr(2), NumStr(0), NumStr(-1), WordStr, EmptyStr}
    IN  texts \cup {Padded(t) : t \in texts}

CellDataTypes == {"datetime", "numeric", "date", "Numeric", "str", ""}

InitValidate ==
    /\ tariff_data = <<>>
    /\ tariff_model = None
    /\ flat_rate_tariff = None
    /\ time_of_use_tariffs = None
    /\ tiered_tariffs = None
    /\ monthly_fee = MONTHLY_FEE
    /\ called = ""
    /\ result = NoCall
    /\ csv_file = None
    /\ \E value \in CellValues, data_type \in CellDataTypes :
           cell = TariffDataCell(value, data_type)
    /\ calls = <<>>

NextValidate == Call_validateDataFormat

SpecValidate == InitValidate /\ [][NextValidate]_vars

\* The records of the file are loaded, as main does, and then billed by time
\* of use.
LoadRecords ==
    /\ called = ""
    /\ tariff_data = <<>>
    /\ csv_file # None
    /\ parseSpreadsheetData(csv_file).status = "returned"
    /\ tariff_data' = parseSpreadsheetData(csv_file).value
    /\ UNCHANGED <<tariff_model, flat_rate_tariff, time_of_use_tariffs,
                   tiered_tariffs, monthly_fee, called, result,
                   csv_file, cell, calls>>

PipelineFiles == {f \in CsvFiles : f.exists /\ f.opens /\ f.dialect}

InitPipeline ==
    /\ tariff_data = <<>>
    /\ tariff_model = TIME_OF_USE
    /\ flat_rate_tariff = None
    /\ time_of_use_tariffs \in {StandardWindows, ConcurrentConfig(2)}
    /\ tiered_tariffs = None
    /\ monthly_fee = MONTHLY_FEE
    /\ called = ""
    /\ result = NoCall
    /\ csv_file \in PipelineFiles
    /\ cell = None
    /\ calls = <<>>

NextPipeline == LoadRecords \/ Call_timeOfUseTariff

SpecPipeline == InitPipeline /\ [][NextPipeline]_vars

\* The three calculators side by side: a caller picks one model, builds the
\* records and calls that model's calculator.
ModelsTouConfigs ==
    {c \in TouConfigs : /\ c.peak.period_start = TimeStr(<<18, 0, 0>>)
                        /\ c.off_peak.period_end = TimeStr(<<6, 59, 59>>)}

InitModelsTOU ==
    /\ tariff_data = <<>>
    /\ tariff_model = TIME_OF_USE
    /\ flat_rate_tariff = None
    /\ time_of_use_tariffs \in ModelsTouConfigs
    /\ tiered_tariffs = None
    /\ monthly_fee \in {0, 10005}
    /\ called = ""
    /\ result = NoCall
    /\ csv_file = None
    /\ cell = None
    /\ calls = <<>>

InitModels == InitFlat \/ InitTiered \/ InitModelsTOU

AppendModelRecord ==
    \/ tariff_model = FLAT_RATE /\ AppendRecord(FlatRecords)
    \/ tariff_model = TIERED /\ AppendRecord(TierRecords)
    \/ tariff_model = TIME_OF_USE /\ AppendRecord(TouRecords)

NextModels ==
    \/ AppendModelRecord
    \/ Call_flatRateTariff
    \/ Call_tieredTariff
    \/ Call_timeOfUseTariff

SpecModels == InitModels /\ [][NextModels]_vars

----------------------------------------------------------------------------
(* Properties of the dispatcher, checked under Spec *)

Dispatched == called = "calculateTariff"

MissingSelectedConfig ==
    \/ tariff_model = FLAT_RATE /\ flat_rate_tariff = None
    \/ tariff_model = TIME_OF_USE /\ time_of_use_tariffs = None
    \/ tariff_model = TIERED /\ tiered_tariffs = None

KnownSelector == tariff_model \in {FLAT_RATE, TIME_OF_USE, TIERED}

\* C1: with selector FLAT_RATE, TIME_OF_USE or TIERED and the selected
\* model's configuration absent, calculateTariff raises AttributeError and
\* returns nothing, whatever the records and the other two configurations.
C1_MissingConfiguration ==
    (Dispatched /\ MissingSelectedConfig) => result = Raise("AttributeError")

C1_Witness ==
    /\ Dispatched
    /\ tariff_model = TIERED
    /\ tiered_tariffs = None
    /\ flat_rate_tariff # None
    /\ time_of_use_tariffs # None
    /\ Len(tariff_data) > 0
    /\ result = Raise("AttributeError")

\* C2: for every selector that is none of the three models (None and a
\* string included), calculateTariff raises ValueError, whichever
\* configurations are supplied; also when all of them are absent.
C2_UnknownModel ==
    (Dispatched /\ ~KnownSelector) => result = Raise("ValueError")

C2_Witness ==
    /\ Dispatched
    /\ tariff_model = None
    /\ flat_rate_tariff = None
    /\ time_of_use_tariffs = None
    /\ tiered_tariffs = None
    /\ result = Raise("ValueError")

\* C3: with the selected model's configuration present, calculateTariff
\* gives exactly the outcome of the calculator matching the selector on the
\* same records, configuration and fee; the result has that calculator's
\* shape and is never None.
C3_DispatchesToSelected ==
    (Dispatched /\ KnownSelector /\ ~MissingSelectedConfig) =>
        /\ tariff_model = FLAT_RATE =>
            /\ result = _flatRateTariff(tariff_data, flat_rate_tariff, monthly_fee)
            /\ result.status = "returned" => result.value.type = "FlatRateTariffResult"
        /\ tariff_model = TIME_OF_USE =>
            /\ result = _timeOfUseTariff(tariff_data, time_of_use_tariffs, monthly_fee)
            /\ result.status = "returned" => result.value.type = "TimeOfUseTariffResult"
        /\ tariff_model = TIERED =>
            /\ result = _tieredTariff(tariff_data, tiered_tariffs, monthly_fee)
            /\ result.status = "returned" => result.value.type = "TieredTariffResult"
        /\ result.status = "returned" => result.value # None

C3_Witness ==
    /\ Dispatched
    /\ tariff_model = TIERED
    /\ tiered_tariffs # None
    /\ flat_rate_tariff = None
    /\ time_of_use_tariffs # None
    /\ monthly_fee # MONTHLY_FEE
    /\ Len(tariff_data) > 0
    /\ result.status = "returned"

----------------------------------------------------------------------------
(* Properties of the flat-rate calculator, checked under SpecFlat *)

\* y is x rounded to a whole number of cents
NearestCent(y, x) == y % 10 = 0 /\ 2 * y - 10 <= 2 * x /\ 2 * x <= 2 * y + 10

\* C4: the flat-rate result has total_consumption = sum of the records' kwh
\* and total_cost = round(total_consumption * rate, 2) + monthly fee: only
\* the usage cost is rounded, the fee is added afterwards as it is.
C4_FlatRate ==
    called = "_flatRateTariff" =>
        /\ result.status = "returned"
        /\ result.value.total_consumption = SumKwh(tariff_data)
        /\ result.value.total_cost =
               round2(SumKwh(tariff_data) * flat_rate_tariff.rate) + monthly_fee
        /\ NearestCent(result.value.total_cost - monthly_fee,
                       SumKwh(tariff_data) * flat_rate_tariff.rate)

C4_Witness ==
    /\ called = "_flatRateTariff"
    /\ Len(tariff_data) = 2
    /\ monthly_fee % 10 # 0
    /\ (SumKwh(tariff_data) * flat_rate_tariff.rate) % 10 \in 1..4
    /\ result.status = "returned"

----------------------------------------------------------------------------
(* Properties of the tiered calculator, checked under SpecTiered *)

TieredCalled == called = "_tieredTariff"

T == SumKwh(tariff_data)

High1 == tiered_tariffs.tier1.high_kwh

High2 == tiered_tariffs.tier2.high_kwh

Smaller(a, b) == IF a <= b THEN a ELSE b

Larger(a, b) == IF a >= b THEN a ELSE b

Clamp(x, lo, hi) == Smaller(Larger(x, lo), hi)

\* C5: the tiered result splits the total consumption T as
\* tier1 = min(T, tier1.high_kwh),
\* tier2 = clamp(T - tier1.high_kwh, 0, tier2.high_kwh - tier1.high_kwh),
\* tier3 = max(0, T - tier2.high_kwh), and reports total_consumption = T,
\* for every record list and every pair of thresholds.
C5_TierSplit ==
    TieredCalled =>
        /\ result.status = "returned"
        /\ result.value.total_consumption = T
        /\ result.value.tier1.tier_consumption = Smaller(T, High1)
        /\ result.value.tier2.tier_consumption = Clamp(T - High1, 0, High2 - High1)
        /\ result.value.tier3.tier_consumption = Larger(0, T - High2)

C5_Witness ==
    /\ TieredCalled
    /\ 0 < High1 /\ High1 < High2 /\ High2 < T
    /\ result.value.tier1.tier_consumption > 0
    /\ result.value.tier2.tier_consumption > 0
    /\ result.value.tier3.tier_consumption > 0

\* C6: with thresholds 0 <= tier1.high_kwh < tier2.high_kwh and a
\* non-negative total, the three tier consumptions add up to
\* total_consumption and none of them is negative.
C6_TierPartition ==
    (TieredCalled /\ 0 <= High1 /\ High1 < High2 /\ T >= 0) =>
        /\ result.value.tier1.tier_consumption
             + result.value.tier2.tier_consumption
             + result.value.tier3.tier_consumption = result.value.total_consumption
        /\ result.value.tier1.tier_consumption >= 0
        /\ result.value.tier2.tier_consumption >= 0
        /\ result.value.tier3.tier_consumption >= 0

C6_Witness ==
    /\ TieredCalled
    /\ 0 <= High1 /\ High1 < High2 /\ T > High2
    /\ Len(tariff_data) = 2
    /\ result.value.tier3.tier_consumption = T - High2

\* C7: with ordered thresholds, a total exactly at tier1.high_kwh is billed
\* wholly in tier 1 (tiers 2 and 3: zero consumption, zero cost); a total
\* exactly at tier2.high_kwh gives tier 2 tier2.high_kwh - tier1.high_kwh
\* and tier 3 zero consumption and zero cost.
C7_TierBoundary ==
    (TieredCalled /\ High1 <= High2) =>
        /\ T = High1 =>
            /\ result.value.tier1.tier_consumption = T
            /\ result.value.tier2.tier_consumption = 0
            /\ result.value.tier2.tier_cost = 0
            /\ result.value.tier3.tier_consumption = 0
            /\ result.value.tier3.tier_cost = 0
        /\ T = High2 =>
            /\ result.value.tier2.tier_consumption = High2 - High1
            /\ result.value.tier3.tier_consumption = 0
            /\ result.value.tier3.tier_cost = 0

C7_Witness ==
    /\ TieredCalled
    /\ 0 < High1 /\ High1 < High2
    /\ T = High1
    /\ result.value.tier1.tier_consumption = High1
    /\ result.value.tier1.tier_cost > 0

\* C8: each reported tier cost is tier_consumption * rate rounded to 2
\* decimals, and total_cost = round(sum of the three tier costs, 2) +
\* monthly fee, the fee being added after the rounding and never rounded.
C8_TierCostsFeeUnrounded ==
    TieredCalled =>
        /\ result.value.tier1.tier_cost =
               round2(result.value.tier1.tier_consumption * tiered_tariffs.tier1.tariff_rate)
        /\ result.value.tier2.tier_cost =
               round2(result.value.tier2.tier_consumption * tiered_tariffs.tier2.tariff_rate)
        /\ result.value.tier3.tier_cost =
               round2(result.value.tier3.tier_consumption * tiered_tariffs.tier3.tariff_rate)
        /\ result.value.total_cost =
               round2(result.value.tier1.tier_consumption * tiered_tariffs.tier1.tariff_rate
                      + result.value.tier2.tier_consumption * tiered_tariffs.tier2.tariff_rate
                      + result.value.tier3.tier_consumption * tiered_tariffs.tier3.tariff_rate)
               + monthly_fee

----------------------------------------------------------------------------
(* Properties of the time-of-use calculator, checked under SpecTOU *)

TouCalled == called = "_timeOfUseTariff"

\* Time of day of a record and of a configured window edge, in seconds,
\* read off the numerals of the strings.
RecordTime(r) ==
    r.timestamp.parts[2] * 3600 + r.timestamp.parts[3] * 60 + r.timestamp.parts[4]

EdgeTime(str) == str.parts[1] * 3600 + str.parts[2] * 60 + str.parts[3]

PeakStart == EdgeTime(time_of_use_tariffs.peak.period_start)

PeakEnd == EdgeTime(time_of_use_tariffs.peak.period_end)

OffPeakStart == EdgeTime(time_of_use_tariffs.off_peak.period_start)

OffPeakEnd == EdgeTime(time_of_use_tariffs.off_peak.period_end)

InPeakWindow(r) == PeakStart <= RecordTime(r) /\ RecordTime(r) <= PeakEnd

OffPeakSpansMidnight == OffPeakStart > OffPeakEnd

\* the configured off-peak window, wrapped around midnight when it spans it
InOffPeakWindow(r) ==
    IF OffPeakSpansMidnight
    THEN RecordTime(r) >= OffPeakStart \/ RecordTime(r) <= OffPeakEnd
    ELSE OffPeakStart <= RecordTime(r) /\ RecordTime(r) <= OffPeakEnd

\* C9: every record with peak.start <= t <= peak.end is counted in the peak
\* bucket and in no other, also when t lies in the off-peak window: the peak
\* bucket holds exactly the kwh of those records, the two other buckets
\* exactly the kwh of the rest.
C9_PeakPrecedence ==
    (TouCalled /\ result.status = "returned") =>
        /\ \A i \in 1..Len(tariff_data) :
               InPeakWindow(tariff_data[i]) =>
                   TouBucket(tariff_data[i], time_of_use_tariffs) = Return("peak")
        /\ result.value.peak.tou_consumption =
               SumKwh(SelectSeq(tariff_data, InPeakWindow))
        /\ result.value.off_peak.tou_consumption
             + result.value.shoulder.tou_consumption =
               SumKwh(SelectSeq(tariff_data, LAMBDA r : ~InPeakWindow(r)))

C9_Witness ==
    /\ TouCalled
    /\ result.status = "returned"
    /\ Len(tariff_data) = 2
    /\ InPeakWindow(tariff_data[1]) /\ InOffPeakWindow(tariff_data[1])
    /\ ~InPeakWindow(tariff_data[2])
    /\ result.value.peak.tou_consumption = tariff_data[1].kwh

\* C10: a record outside the peak window is counted as off-peak only if the
\* off-peak window spans midnight (off_peak.start > off_peak.end) and the
\* record's time is at or after off_peak.start or at or before off_peak.end;
\* every other non-peak record is counted as shoulder.
C10_OffPeakOnlyWhenSpanning ==
    (TouCalled /\ result.status = "returned") =>
        /\ result.value.off_peak.tou_consumption =
               SumKwh(SelectSeq(tariff_data,
                   LAMBDA r : /\ ~InPeakWindow(r)
                              /\ OffPeakSpansMidnight
                              /\ (RecordTime(r) >= OffPeakStart
                                  \/ RecordTime(r) <= OffPeakEnd)))
        /\ result.value.shoulder.tou_consumption =
               SumKwh(SelectSeq(tariff_data,
                   LAMBDA r : /\ ~InPeakWindow(r)
                              /\ ~(/\ OffPeakSpansMidnight
                                   /\ (RecordTime(r) >= OffPeakStart
                                       \/ RecordTime(r) <= OffPeakEnd))))

PeakSpansMidnight == PeakStart > PeakEnd

\* the configured peak window, wrapped around midnight when it spans it
InPeakWindowWrapped(r) ==
    IF PeakSpansMidnight
    THEN RecordTime(r) >= PeakStart \/ RecordTime(r) <= PeakEnd
    ELSE InPeakWindow(r)

InNeitherWindow(r) == ~InPeakWindowWrapped(r) /\ ~InOffPeakWindow(r)

\* C11: shoulder is the catch-all: for every window configuration a record
\* whose time of day lies in neither the configured peak window nor the
\* configured off-peak window is counted as shoulder, and no error is raised.
C11_ShoulderCatchAll ==
    TouCalled =>
        /\ result.status = "returned"
        /\ \A i \in 1..Len(tariff_data) :
               InNeitherWindow(tariff_data[i]) =>
                   TouBucket(tariff_data[i], time_of_use_tariffs) = Return("shoulder")
        /\ result.value.shoulder.tou_consumption >=
               SumKwh(SelectSeq(tariff_data, InNeitherWindow))

\* the accumulators when the record loop starts
ZeroAcc == [peak |-> 0, off_peak |-> 0, shoulder |-> 0]

Prefix(n) == SubSeq(tariff_data, 1, n)

CountedAs(i, bucket) ==
    TouBucket(tariff_data[i], time_of_use_tariffs) = Return(bucket)

AtPeakEdge(r) == RecordTime(r) = PeakStart \/ RecordTime(r) = PeakEnd

AtOffPeakEdge(r) == RecordTime(r) = OffPeakStart \/ RecordTime(r) = OffPeakEnd

JustOutsidePeak(r) == RecordTime(r) = PeakStart - 1 \/ RecordTime(r) = PeakEnd + 1

\* the bucket consumptions of the result when record 1 is the only record
\* and is counted in the given bucket
OnlyRecordIn(bucket) ==
    /\ result.value.peak.tou_consumption =
           (IF bucket = "peak" THEN tariff_data[1].kwh ELSE 0)
    /\ result.value.off_peak.tou_consumption =
           (IF bucket = "off_peak" THEN tariff_data[1].kwh ELSE 0)
    /\ result.value.shoulder.tou_consumption =
           (IF bucket = "shoulder" THEN tariff_data[1].kwh ELSE 0)

\* C13 as stated: a record exactly at peak.start or at peak.end is counted
\* as peak; a non-peak record exactly at off_peak.start or off_peak.end of a
\* midnight-spanning off-peak window is counted as off-peak; a record one
\* second before peak.start or one second after peak.end is not peak.
C13_InclusiveEdges ==
    (TouCalled /\ result.status = "returned") =>
        /\ \A i \in 1..Len(tariff_data) :
            /\ AtPeakEdge(tariff_data[i]) => CountedAs(i, "peak")
            /\ (~CountedAs(i, "peak") /\ OffPeakSpansMidnight
                   /\ AtOffPeakEdge(tariff_data[i])) => CountedAs(i, "off_peak")
            /\ JustOutsidePeak(tariff_data[i]) => ~CountedAs(i, "peak")
        /\ (Len(tariff_data) = 1 /\ AtPeakEdge(tariff_data[1])) => OnlyRecordIn("peak")

\* C13 amended: the same, the peak part for a peak window that does not
\* span midnight (peak.start <= peak.end).
C13_InclusiveEdgesSameDayPeak ==
    (TouCalled /\ result.status = "returned") =>
        /\ \A i \in 1..Len(tariff_data) :
            /\ (~PeakSpansMidnight /\ AtPeakEdge(tariff_data[i])) => CountedAs(i, "peak")
            /\ (~CountedAs(i, "peak") /\ OffPeakSpansMidnight
                   /\ AtOffPeakEdge(tariff_data[i])) => CountedAs(i, "off_peak")
            /\ JustOutsidePeak(tariff_data[i]) => ~CountedAs(i, "peak")
        /\ (Len(tariff_data) = 1 /\ ~PeakSpansMidnight /\ AtPeakEdge(tariff_data[1]))
               => OnlyRecordIn("peak")
        /\ (Len(tariff_data) = 1 /\ ~InPeakWindow(tariff_data[1])
               /\ OffPeakSpansMidnight /\ AtOffPeakEdge(tariff_data[1]))
               => OnlyRecordIn("off_peak")

C13_Witness ==
    /\ TouCalled
    /\ result.status = "returned"
    /\ Len(tariff_data) = 2
    /\ ~PeakSpansMidnight /\ OffPeakSpansMidnight
    /\ RecordTime(tariff_data[1]) = PeakEnd
    /\ RecordTime(tariff_data[2]) = OffPeakStart
    /\ RecordTime(tariff_data[2]) = PeakEnd + 1
    /\ result.value.peak.tou_consumption = tariff_data[1].kwh
    /\ result.value.off_peak.tou_consumption = tariff_data[2].kwh

\* C14: each bucket's cost is round(bucket consumption * that bucket's rate,
\* 2); total_cost is peak cost + off-peak cost + shoulder cost + monthly fee
\* with no further rounding; total_consumption is the sum of all kwh.
C14_TouCosts ==
    (TouCalled /\ result.status = "returned") =>
        LET v == result.value
            c == time_of_use_tariffs
        IN  /\ v.peak.tou_cost = round2(v.peak.tou_consumption * c.peak.tariff_rate)
            /\ NearestCent(v.peak.tou_cost, v.peak.tou_consumption * c.peak.tariff_rate)
            /\ v.off_peak.tou_cost =
                   round2(v.off_peak.tou_consumption * c.off_peak.tariff_rate)
            /\ NearestCent(v.off_peak.tou_cost,
                           v.off_peak.tou_consumption * c.off_peak.tariff_rate)
            /\ v.shoulder.tou_cost =
                   round2(v.shoulder.tou_consumption * c.shoulder.tariff_rate)
            /\ NearestCent(v.shoulder.tou_cost,
                           v.shoulder.tou_consumption * c.shoulder.tariff_rate)
            /\ v.total_cost =
                   v.peak.tou_cost + v.off_peak.tou_cost + v.shoulder.tou_cost
                   + monthly_fee
            /\ v.total_consumption = SumKwh(tariff_data)

C14_Witness ==
    /\ TouCalled
    /\ result.status = "returned"
    /\ Len(tariff_data) = 2
    /\ monthly_fee % 10 # 0
    /\ result.value.peak.tou_consumption > 0
    /\ result.value.off_peak.tou_consumption > 0
    /\ (result.value.off_peak.tou_consumption
            * time_of_use_tariffs.off_peak.tariff_rate) % 10 # 0
    /\ result.value.total_cost % 10 # 0

----------------------------------------------------------------------------
(* Properties of all three calculators, checked under SpecModels *)

Calculators == {"_flatRateTariff", "_tieredTariff", "_timeOfUseTariff"}

CalculatorCalled == called \in Calculators

\* C15: with no usage records total_cost is exactly the monthly fee, and
\* total_consumption and every sub-result's cost and consumption are 0, for
\* all three models and every fee (tiered thresholds ordered).
C15_FeeInvariant ==
    (CalculatorCalled /\ tariff_data = <<>>) =>
        /\ result.status = "returned"
        /\ result.value.total_consumption = 0
        /\ called = "_timeOfUseTariff" =>
               \A b \in {result.value.peak, result.value.off_peak, result.value.shoulder} :
                   b.tou_cost = 0 /\ b.tou_consumption = 0
        /\ (called = "_tieredTariff" /\ 0 <= High1 /\ High1 <= High2) =>
               \A t \in {result.value.tier1, result.value.tier2, result.value.tier3} :
                   t.tier_cost = 0 /\ t.tier_consumption = 0
        /\ (called = "_tieredTariff" => (0 <= High1 /\ High1 <= High2)) =>
               result.value.total_cost = monthly_fee

\* the called calculator on another record list, same configuration and fee
CalculatorOn(records) ==
    IF called = "_flatRateTariff"
    THEN _flatRateTariff(records, flat_rate_tariff, monthly_fee)
    ELSE IF called = "_tieredTariff"
    THEN _tieredTariff(records, tiered_tariffs, monthly_fee)
    ELSE _timeOfUseTariff(records, time_of_use_tariffs, monthly_fee)

\* tariff_data with record i's kwh raised by d
WithKwhRaised(i, d) == [tariff_data EXCEPT ![i].kwh = @ + d]

KwhIncrements == {1, 2, 5}

\* C16: with non-negative rates, raising the kwh of any one record, all else
\* unchanged, never lowers total_cost, in each of the three models.
C16_Monotone ==
    (CalculatorCalled /\ result.status = "returned") =>
        \A i \in 1..Len(tariff_data) : \A d \in KwhIncrements :
            CalculatorOn(WithKwhRaised(i, d)).value.total_cost
                >= result.value.total_cost

C16_Witness ==
    /\ called = "_tieredTariff"
    /\ Len(tariff_data) = 2
    /\ 0 < High1 /\ High1 < High2
    /\ T = High1
    /\ CalculatorOn(WithKwhRaised(2, 1)).value.total_cost > result.value.total_cost
    /\ CalculatorOn(WithKwhRaised(2, 1)).value.tier2.tier_consumption = 1

----------------------------------------------------------------------------
(* The tiered result as a function of the total, checked under SpecTiered *)

RECURSIVE Reverse(_)
Reverse(s) == IF s = <<>> THEN <<>> ELSE Append(Reverse(Tail(s)), Head(s))

\* record lists of up to two records, at two different timestamps
ResplitRecords ==
    {ElectricalUsageRecord(ts, k) :
        ts \in {Noon, TimeStr(<<2, 0, 0, 0>>)}, k \in {-1, 0, 1, 2, 3, 4, 5, 6}}

Resplits ==
    {<<>>} \cup {<<r>> : r \in ResplitRecords}
           \cup {<<r1, r2>> : r1 \in ResplitRecords, r2 \in ResplitRecords}

----------------------------------------------------------------------------
(* _total_consumption, checked under SpecTotal *)

KwhValues == {tariff_data[i].kwh : i \in 1..Len(tariff_data)}

Occurrences(v) == Cardinality({i \in 1..Len(tariff_data) : tariff_data[i].kwh = v})

RECURSIVE WeightedSum(_)
WeightedSum(values) ==
    IF values = {} THEN 0
    ELSE LET v == CHOOSE x \in values : TRUE
         IN  v * Occurrences(v) + WeightedSum(values \ {v})

\* C19: _total_consumption returns the sum of the kwh of all records (every
\* kwh value counted as often as it occurs), 0 for the empty list and for a
\* list of records that all have kwh 0, and it never raises.
C19_TotalConsumption ==
    called = "_total_consumption" =>
        /\ result.status = "returned"
        /\ result.value = WeightedSum(KwhValues)
        /\ tariff_data = <<>> => result.value = 0
        /\ KwhValues = {0} => result.value = 0

C19_Witness ==
    /\ called = "_total_consumption"
    /\ Len(tariff_data) = 2
    /\ tariff_data[1].kwh = 3
    /\ tariff_data[2].kwh = 2
    /\ result = Return(5)

----------------------------------------------------------------------------
(* Frame of a call, checked under Spec *)

\* C20: a call, whether it returns or raises, leaves the record list (length,
\* order, timestamps, kwh), the selector, the three configuration objects and
\* the fee exactly as they were before the call.
C20_InputsUnchanged ==
    [][(called = "" /\ called' # "") => UNCHANGED Inputs]_vars

C20_Witness ==
    /\ called = "calculateTariff"
    /\ Len(tariff_data) = MaxRecords
    /\ result.status = "raised"
    /\ tariff_model = TIERED
    /\ tiered_tariffs = None
    /\ time_of_use_tariffs # None

----------------------------------------------------------------------------
(* Rounding of the tiered breakdown, checked under SpecTiered *)

\* C26: in the tiered result the reported (rounded) tier costs add up to
\* total_cost minus the monthly fee (stated here for fees of whole cents).
C26_TierBreakdownAddsUp ==
    (TieredCalled /\ monthly_fee % 10 = 0) =>
        result.value.total_cost - monthly_fee
            = result.value.tier1.tier_cost + result.value.tier2.tier_cost
              + result.value.tier3.tier_cost

----------------------------------------------------------------------------
(* A peak window that spans midnight, checked under SpecTOU *)

\* C28: when the configured peak window spans midnight (start after end) no
\* record is counted as peak, whatever its time of day: the peak bucket is
\* empty and every kwh is in the off-peak or the shoulder bucket.
C28_WrappedPeakNeverMatches ==
    (TouCalled /\ PeakSpansMidnight) =>
        /\ result.status = "returned"
        /\ result.value.peak.tou_consumption = 0
        /\ result.value.peak.tou_cost = 0
        /\ result.value.off_peak.tou_consumption + result.value.shoulder.tou_consumption
               = SumKwh(tariff_data)

C28_Witness ==
    /\ TouCalled
    /\ PeakSpansMidnight
    /\ ~OffPeakSpansMidnight
    /\ Len(tariff_data) = 2
    /\ RecordTime(tariff_data[1]) = PeakStart
    /\ RecordTime(tariff_data[2]) = 0
    /\ InPeakWindowWrapped(tariff_data[2])
    /\ result.value.peak.tou_consumption = 0

----------------------------------------------------------------------------
(* Unusable window edges, checked under SpecWindows *)

\* the four edges in the order in which an iteration of the loop parses them
ParsedEdges ==
    <<time_of_use_tariffs.peak.period_start, time_of_use_tariffs.peak.period_end,
      time_of_use_tariffs.off_peak.period_start,
      time_of_use_tariffs.off_peak.period_end>>

InRange(parts) == Len(parts) = 3 /\ ValidTime(parts[1], parts[2], parts[3])

\* three ':'-separated integer numerals in range, however they are written
ReadableEdge(e) == e.type = "str" /\ InRange(e.parts)

\* exactly of the form 'HH:MM:SS'
StrictEdge(e) == ReadableEdge(e) /\ "loose" \notin DOMAIN e

FirstEdgeNot(Ok(_)) ==
    ParsedEdges[CHOOSE i \in 1..4 :
                    /\ ~Ok(ParsedEdges[i])
                    /\ \A j \in 1..(i - 1) : Ok(ParsedEdges[j])]

TimestampsValid ==
    \A i \in 1..Len(tariff_data) :
        /\ Len(tariff_data[i].timestamp.parts) = 4
        /\ InRange(Tail(tariff_data[i].timestamp.parts))

EmptyTouResult ==
    TimeOfUseTariffResult(monthly_fee, 0, TimeOfUseResult(0, 0),
                          TimeOfUseResult(0, 0), TimeOfUseResult(0, 0))

----------------------------------------------------------------------------
(* Interleaved invocations, checked under SpecConcurrent *)

\* C21: however the steps of the invocations interleave, every finished
\* invocation has exactly the outcome that the calculator gives for its own
\* records, configuration and fee when run alone, and while it runs its
\* accumulators hold exactly the kwh of its own records processed so far.
C21_Isolation ==
    /\ \A c \in Callers :
           calls[c].pc = "done" =>
               calls[c].result = _timeOfUseTariff(calls[c].tariff_data,
                                                  calls[c].tariff_categories,
                                                  calls[c].monthly_fee)
    /\ \A c \in Callers :
           calls[c].pc = "loop" =>
               /\ calls[c].i \in 1..(Len(calls[c].tariff_data) + 1)
               /\ calls[c].peak_consumption + calls[c].off_peak_consumption
                      + calls[c].shoulder_consumption
                  = SumKwh(SubSeq(calls[c].tariff_data, 1, calls[c].i - 1))

C21_Witness ==
    /\ calls[1].pc = "done"
    /\ calls[1].result.status = "returned"
    /\ Len(calls[1].tariff_data) = 2
    /\ calls[1].result.value.peak.tou_consumption = 2
    /\ calls[2].pc = "loop"
    /\ calls[2].i = 2
    /\ Len(calls[2].tariff_data) = 2
    /\ calls[2].peak_consumption = 1

----------------------------------------------------------------------------
(* Ingestion, checked under SpecIngest *)

HasCells(row, name) == row[name] # None

\* both cells of a row are there and validate
RowValidates(row) ==
    /\ HasCells(row, SPREADSHEET_COL_TIMESTAMP)
    /\ HasCells(row, SPREADSHEET_COL_KWH)
    /\ validateDataFormat(
           TariffDataCell(strip(row[SPREADSHEET_COL_TIMESTAMP]), "datetime"))
    /\ validateDataFormat(
           TariffDataCell(strip(row[SPREADSHEET_COL_KWH]), "numeric"))

RECURSIVE RecordsOfValidRows(_)
RecordsOfValidRows(rows) ==
    IF rows = <<>> THEN <<>>
    ELSE IF RowValidates(Head(rows))
    THEN <<ElectricalUsageRecord(strip(Head(rows)[SPREADSHEET_COL_TIMESTAMP]),
                                 float(Head(rows)[SPREADSHEET_COL_KWH]).value)>>
         \o RecordsOfValidRows(Tail(rows))
    ELSE RecordsOfValidRows(Tail(rows))

\* C22: parseSpreadsheetData returns exactly the rows whose timestamp and kWh
\* cells both validate, in order, as records of the stripped timestamp and
\* the parsed kWh; every other row is skipped and the later rows are still
\* processed; when reading the file reports an error the list is empty.
C22_ValidRowsInOrder ==
    called = "parseSpreadsheetData" =>
        result = Return(IF readCSVFile(csv_file)[2] # None THEN <<>>
                        ELSE RecordsOfValidRows(readCSVFile(csv_file)[1]))

DataRows == SelectSeq(csv_file.rows, LAMBDA row : row # <<>>)

HeaderNames == {csv_file.fieldnames[i] : i \in 1..Len(csv_file.fieldnames)}

\* C23: readCSVFile returns rows without an error or an error without rows;
\* the error is file-not-found for a missing path, a read error when opening
\* or reading fails, the empty-file error for a file without data rows and
\* the missing-columns error when 'timestamp' or 'kWh' is not in the header
\* (the last two stated for files whose dialect can be detected).
C23_RowsOrError ==
    called = "readCSVFile" =>
        LET data == result.value[1]
            error == result.value[2]
        IN  /\ result.status = "returned"
            /\ (data # <<>> /\ error = None) \/ (data = <<>> /\ error # None)
            /\ ~csv_file.exists => error = ErrorMessage("not found")
            /\ (csv_file.exists /\ ~csv_file.opens) => error = ErrorMessage("read error")
            /\ (csv_file.exists /\ csv_file.opens /\ csv_file.dialect /\ DataRows = <<>>)
                   => error = ErrorMessage("empty")
            /\ (/\ csv_file.exists /\ csv_file.opens /\ csv_file.dialect
                /\ DataRows # <<>>
                /\ ~({SPREADSHEET_COL_TIMESTAMP, SPREADSHEET_COL_KWH} \subseteq HeaderNames))
                   => error = ErrorMessage("columns not found")

\* C25: every record that parseSpreadsheetData returns has a non-negative
\* kwh, so that the total consumption of ingested records is not negative.
C25_IngestedKwhNonNegative ==
    (called = "parseSpreadsheetData" /\ result.status = "returned") =>
        /\ \A i \in 1..Len(result.value) : result.value[i].kwh >= 0
        /\ _total_consumption(result.value) >= 0

----------------------------------------------------------------------------
(* validateDataFormat, checked under SpecValidate *)

Blank(value) == strip(value) = EmptyStr

FourNumeralsInRange(value) ==
    /\ "parts" \in DOMAIN value
    /\ Len(value.parts) = 4
    /\ value.parts[1] >= 0
    /\ ValidTime(value.parts[2], value.parts[3], value.parts[4])

\* exactly of the form 'YYYY-MM-DD HH:MM:SS'
StrictTimestamp(value) == FourNumeralsInRange(value) /\ "loose" \notin DOMAIN value

IsNumeral(value) == "number" \in DOMAIN strip(value)

----------------------------------------------------------------------------
(* Ingested records billed by time of use, checked under SpecPipeline *)

====
